---- MODULE Spec2Model ----
(***************************************************************************)
(* Model of src/telegram-bot.py: the audio handler of the bot              *)
(* (TelegramBot.handle_audio), the segmentation arithmetic                 *)
(* (AudioProcessor.split_audio_into_segments), the per-chunk recognition   *)
(* (Transcriber.transcribe), the delivery (TelegramBot._send_result) and   *)
(* the temp-file cleanup (TelegramBot._cleanup_files,                      *)
(* AudioProcessor.cleanup_segments).                                       *)
(*                                                                         *)
(* Text is modelled at word granularity: a text is a sequence of symbols,  *)
(* each symbol a blank " " or one word; len() counts symbols.              *)
(* A path is the sequence of its components below gettempdir(); a          *)
(* component is the tuple <<stem, number, extension>> of a file name, or   *)
(* <<name>> / <<name, number>> of a directory name.  The filesystem is     *)
(* the set of paths that exist.                                            *)
(***************************************************************************)
EXTENDS Integers, Sequences, FiniteSets, TLC

(***************************************************************************)
(* Bounds of the model.                                                    *)
(***************************************************************************)
\* user ids are 1..MaxUsers
MaxUsers == 2
\* Telegram file ids are 1..MaxFileIds
MaxFileIds == 2
\* the clock readings datetime.now() can return are 1..MaxTimestamp
MaxTimestamp == 2
\* MAX_TEXT_LENGTH of the environment: the inline limit, in symbols
InlineLimit == 3
\* the windowing specification draws every duration in 1..MaxDurationMs
MaxDurationMs == 4000
\* the delivery specification draws every text length in 0..MaxProbeLen
MaxProbeLen == 6

(***************************************************************************)
(* Program constants.                                                      *)
(***************************************************************************)
\* duration_ms / 1000, segment_duration * 1000, segment_overlap * 1000
MsPerSecond == 1000
\* 50 * 1024 * 1024: Telegram's limit on the declared file size, in bytes
TelegramMaxBytes == 52428800
\* the declared duration limit of two hours, in seconds
MaxDeclaredDuration == 7200
\* BotConfig defaults
DefaultSegmentDuration == 30
DefaultSegmentOverlap == 2
DefaultMaxFileSizeMb == 50
DefaultMaxTextLength == 4096
BytesPerMb == 1048576

Requests == {"r1", "r2"}
Users == 1..MaxUsers
FileIds == 1..MaxFileIds
Timestamps == 1..MaxTimestamp

\* Python's None for a path (temp_dir = None, audio_path not yet bound)
NoPath == <<>>

(***************************************************************************)
(* Integer helpers.                                                        *)
(***************************************************************************)
Min(a, b) == IF a <= b THEN a ELSE b

\* math.ceil(a / b) for integers a and b # 0 (true division, then ceiling)
CeilDiv(a, b) ==
    LET n == IF b < 0 THEN -a ELSE a
        m == IF b < 0 THEN -b ELSE b
    IN  IF n >= 0 THEN (n + m - 1) \div m ELSE -((-n) \div m)

Max(a, b) == IF a >= b THEN a ELSE b

Range(seq) == {seq[k] : k \in DOMAIN seq}

(***************************************************************************)
(* BotConfig: the fields the handler reads.                                *)
(***************************************************************************)
BotConfig(segment_duration, segment_overlap, max_file_size_mb, max_text_length) ==
    [segment_duration |-> segment_duration,
     segment_overlap  |-> segment_overlap,
     max_file_size_mb |-> max_file_size_mb,
     max_text_length  |-> max_text_length]

\* BotConfig.from_env: every integer of the environment is accepted as it is
\* (no relation between SEGMENT_OVERLAP and SEGMENT_DURATION is checked).
\* The configurations the handler specifications start from:
HandlerConfigs ==
    {BotConfig(DefaultSegmentDuration, DefaultSegmentOverlap,
               DefaultMaxFileSizeMb, InlineLimit),
     BotConfig(2, 2, DefaultMaxFileSizeMb, InlineLimit),
     BotConfig(1, 2, DefaultMaxFileSizeMb, InlineLimit)}

\* The configurations the windowing specification starts from.
SegmenterConfigs ==
    {BotConfig(s, o, DefaultMaxFileSizeMb, InlineLimit) :
        s \in 1..3, o \in 0..3}
    \cup {BotConfig(DefaultSegmentDuration, DefaultSegmentOverlap,
                    DefaultMaxFileSizeMb, InlineLimit)}

(***************************************************************************)
(* Paths and the filesystem.                                               *)
(***************************************************************************)
\* os.path.dirname
Dirname(path) == SubSeq(path, 1, Len(path) - 1)

\* os.path.join(dir, name)
PathJoin(dir, name) == Append(dir, name)

\* os.path.join(gettempdir(), "tg_audio_{}".format(user.id))
TempDir(user_id) == << <<"tg_audio", user_id>> >>

\* os.path.join(temp_dir, "audio_{}.ogg".format(audio_file.file_id))
AudioPath(temp_dir, file_id) == PathJoin(temp_dir, <<"audio", file_id, "ogg">>)

\* os.path.join(os.path.dirname(audio_path), "segments")
SegmentsDir(audio_path) == PathJoin(Dirname(audio_path), <<"segments">>)

\* os.path.join(segments_dir, "segment_{:03d}.wav".format(i+1)), n = i+1
SegmentPath(segments_dir, n) == PathJoin(segments_dir, <<"segment", n, "wav">>)

\* os.path.join(temp_dir, "Transcription_<timestamp>.txt")
TextPath(temp_dir, timestamp) ==
    PathJoin(temp_dir, <<"Transcription", timestamp, "txt">>)

\* file_path.replace('.ogg', '.wav'): every ".ogg" of the path becomes ".wav"
WavPath(file_path) ==
    [k \in DOMAIN file_path |->
        IF Len(file_path[k]) = 3 /\ file_path[k][3] = "ogg"
        THEN [file_path[k] EXCEPT ![3] = "wav"]
        ELSE file_path[k]]

IsPrefix(p, q) == Len(p) <= Len(q) /\ SubSeq(q, 1, Len(p)) = p

\* os.path.exists
Exists(files, path) == path \in files

\* os.makedirs(path, exist_ok=True): the directory and every missing parent
Makedirs(files, path) == files \cup {SubSeq(path, 1, k) : k \in 1..Len(path)}

\* a file can be created where its directory exists
CanCreate(files, path) == Len(path) = 1 \/ Dirname(path) \in files

\* os.remove
Remove(files, path) == files \ {path}

\* os.rmdir in the place of shutil.rmtree: an empty directory only
Rmtree_as_rmdir(files, path) ==
    IF \A q \in files : IsPrefix(path, q) => q = path
    THEN files \ {path} ELSE files

\* shutil.rmtree: the directory and everything below it
Rmtree(files, path) == {q \in files : ~IsPrefix(path, q)}

\* os.rmdir succeeds on an empty directory only
IsEmptyDir(files, dir) == \A q \in files : IsPrefix(dir, q) => q = dir

(***************************************************************************)
(* AudioProcessor.cleanup_segments and TelegramBot._cleanup_files, as      *)
(* functions of the filesystem.                                            *)
(***************************************************************************)
\* cleanup_segments without the test of os.path.exists: os.remove raises on
\* the first segment that is missing and the except ends the function
cleanup_segments_without_exists(files, segment_paths) ==
    LET missing == {k \in DOMAIN segment_paths : segment_paths[k] \notin files}
        first == CHOOSE k \in missing : \A j \in missing : k <= j
        all_removed == files \ Range(segment_paths)
        segments_dir == Dirname(segment_paths[1])
    IN  IF missing # {}
        THEN files \ {segment_paths[j] : j \in 1..(first - 1)}
        ELSE IF segment_paths # <<>>
                /\ Exists(all_removed, segments_dir)
                /\ \A q \in all_removed : IsPrefix(segments_dir, q) => q = segments_dir
        THEN Remove(all_removed, segments_dir)
        ELSE all_removed

\* every segment that exists is removed; then the directory of the first
\* segment is removed with os.rmdir, whose OSError on a non-empty directory
\* is caught and logged
cleanup_segments(files, segment_paths) ==
    LET removed == files \ Range(segment_paths)
        segments_dir == Dirname(segment_paths[1])
    IN  IF segment_paths = <<>> THEN removed
        ELSE IF Exists(removed, segments_dir) /\ IsEmptyDir(removed, segments_dir)
             THEN Remove(removed, segments_dir)
             ELSE removed

\* _cleanup_files without the rmtree of the temp directory
cleanup_files_without_rmtree(files, audio_path, segment_paths, temp_dir) ==
    LET f1 == IF audio_path # NoPath /\ Exists(files, audio_path)
              THEN Remove(files, audio_path) ELSE files
    IN  IF segment_paths # <<>>
        THEN cleanup_segments(f1, segment_paths) ELSE f1

\* the audio file, then the segments, then the whole temp directory
cleanup_files(files, audio_path, segment_paths, temp_dir) ==
    LET f1 == IF audio_path # NoPath /\ Exists(files, audio_path)
              THEN Remove(files, audio_path) ELSE files
        f2 == IF segment_paths # <<>>
              THEN cleanup_segments(f1, segment_paths) ELSE f1
    IN  IF temp_dir # NoPath /\ Exists(f2, temp_dir)
        THEN Rmtree(f2, temp_dir) ELSE f2

\* the removals of the cleanup that can fail with an OSError
CleanupFaults ==
    {"no_fault", "remove_audio_fails", "remove_segment_fails", "rmdir_fails",
     "rmtree_fails"}

\* cleanup_segments when os.remove raises on the first segment that exists,
\* or when os.rmdir raises: the except of lines 213-214 ends the function
cleanup_segments_fault(files, segment_paths, fault) ==
    CASE fault = "remove_segment_fails"
            /\ Range(segment_paths) \cap files # {} -> files
      [] fault = "rmdir_fails" -> files \ Range(segment_paths)
      [] OTHER -> cleanup_segments(files, segment_paths)

\* _cleanup_files when one removal raises: the except of lines 414-415 ends
\* the function where the exception was raised; an exception inside
\* cleanup_segments has been caught there, so the rmtree still runs; a failed
\* rmtree removes nothing
cleanup_files_fault(files, audio_path, segment_paths, temp_dir, fault) ==
    LET audio_exists == audio_path # NoPath /\ Exists(files, audio_path)
        f1 == IF audio_exists THEN Remove(files, audio_path) ELSE files
        f2 == IF segment_paths # <<>>
              THEN cleanup_segments_fault(f1, segment_paths, fault) ELSE f1
    IN  CASE fault = "no_fault" ->
                cleanup_files(files, audio_path, segment_paths, temp_dir)
          [] fault = "remove_audio_fails" /\ audio_exists -> files
          [] fault = "rmtree_fails" -> f2
          [] OTHER -> IF temp_dir # NoPath /\ Exists(f2, temp_dir)
                      THEN Rmtree(f2, temp_dir) ELSE f2

\* _cleanup_files without its try/except: the OSError leaves the function
Propagates_uncaught(fault) == fault # "no_fault"

\* lines 399 and 414-415: whether an exception of a removal leaves
\* _cleanup_files (every Exception is caught and logged)
Propagates(fault) == FALSE

(***************************************************************************)
(* Text.                                                                   *)
(***************************************************************************)
Blank == " "

\* the word of the speech of chunk n
Word(n) == "w" \o ToString(n)

\* str.strip(): leading and trailing blanks removed
Strip(t) ==
    LET solid == {k \in DOMAIN t : t[k] # Blank}
    IN  IF solid = {} THEN <<>>
        ELSE SubSeq(t, CHOOSE a \in solid : \A k \in solid : a <= k,
                       CHOOSE b \in solid : \A k \in solid : b >= k)

\* ' '.join(texts)
RECURSIVE Join(_)
Join(texts) ==
    IF texts = <<>> THEN <<>>
    ELSE IF Len(texts) = 1 THEN texts[1]
    ELSE texts[1] \o <<Blank>> \o Join(Tail(texts))

\* the text transcribe returns when the backend raises sr.UnknownValueError
UnknownValueText ==
    <<"Ne", " ", "udalos", " ", "raspoznat", " ", "rech.", " ",
      "Poprobuyte", " ", "govorit", " ", "chetche.">>

\* the text transcribe returns when the backend raises sr.RequestError
RequestErrorText ==
    <<"Oshibka", " ", "podklyucheniya", " ", "k", " ", "servisu", " ",
      "raspoznavaniya", " ", "rechi.">>

(***************************************************************************)
(* AudioProcessor.split_audio_into_segments: the arithmetic.               *)
(***************************************************************************)
segment_duration_ms(cfg) == cfg.segment_duration * MsPerSecond

overlap_ms(cfg) == cfg.segment_overlap * MsPerSecond

\* the comparison of line 158 as a strict one
FitsOneSegment_strict(duration_ms, cfg) ==
    duration_ms < cfg.segment_duration * MsPerSecond

\* duration_seconds <= segment_duration, duration_seconds = duration_ms / 1000
FitsOneSegment(duration_ms, cfg) == duration_ms <= cfg.segment_duration * MsPerSecond

\* the division of num_segments raises ZeroDivisionError
DivisionByZero(cfg) == segment_duration_ms(cfg) - overlap_ms(cfg) = 0

\* num_segments with the overlap left out of the numerator
num_segments_without_overlap(duration_ms, cfg) ==
    CeilDiv(duration_ms, segment_duration_ms(cfg) - overlap_ms(cfg))

\* math.ceil((duration_ms - overlap_ms) / (segment_duration_ms - overlap_ms))
num_segments(duration_ms, cfg) ==
    CeilDiv(duration_ms - overlap_ms(cfg),
            segment_duration_ms(cfg) - overlap_ms(cfg))

\* start_time of iteration i of range(num_segments), i = 0, 1, ...
start_time(i, cfg) == i * (segment_duration_ms(cfg) - overlap_ms(cfg))

\* end_time without the clamp to the duration
end_time_unclamped(i, duration_ms, cfg) ==
    start_time(i, cfg) + segment_duration_ms(cfg)

\* end_time of iteration i
end_time(i, duration_ms, cfg) ==
    Min(start_time(i, cfg) + segment_duration_ms(cfg), duration_ms)

\* the windows <<start_time, end_time>> of the first n iterations
Windows(n, duration_ms, cfg) ==
    [k \in 1..n |-> <<start_time(k - 1, cfg), end_time(k - 1, duration_ms, cfg)>>]

(***************************************************************************)
(* Transcriber.transcribe: what it returns for the backend's answer.       *)
(***************************************************************************)
\* the texts recognize_google can return for chunk n, by shape
BackendText(shape, n) ==
    CASE shape = "empty"  -> <<>>
      [] shape = "blank"  -> <<Blank>>
      [] shape = "padded" -> <<Blank, Word(n), Blank>>
      [] shape = "double" -> <<Word(n), Word(n)>>

\* lines 108-117: the value of text after the inner try
RecognizedText(outcome, shape, n) ==
    CASE outcome = "unknown_value" -> UnknownValueText
      [] outcome = "request_error" -> RequestErrorText
      [] OTHER                     -> BackendText(shape, n)

\* transcribe raises RuntimeError (the outer except, lines 127-129)
Raises(outcome) == outcome \in {"decode_error", "export_error", "read_error"}

\* the filesystem after transcribe(file_path): the WAV copy is written at
\* wav_path, and removed again only when the end of the try is reached
FilesAfterTranscribe(files, file_path, outcome, partial) ==
    LET wav_path == WavPath(file_path)
    IN  CASE outcome = "decode_error" -> files
          [] outcome = "export_error" ->
                IF partial /\ CanCreate(files, wav_path)
                THEN files \cup {wav_path} ELSE files
          [] outcome = "read_error"   -> files \cup {wav_path}
          [] OTHER                    -> Remove(files \cup {wav_path}, wav_path)

(***************************************************************************)
(* TelegramBot.handle_audio: the pieces of the loop and of the delivery.   *)
(***************************************************************************)
\* the test of line 319 on the text as returned, the append without strip
AppendText_unstripped(all_texts, segment_text) ==
    IF segment_text # <<>> THEN Append(all_texts, segment_text) ELSE all_texts

\* the new text put in front of the list
AppendText_front(all_texts, segment_text) ==
    IF Strip(segment_text) # <<>>
    THEN <<Strip(segment_text)>> \o all_texts
    ELSE all_texts

\* lines 319-320: if segment_text.strip(): all_texts.append(segment_text.strip())
AppendText(all_texts, segment_text) ==
    IF Strip(segment_text) # <<>>
    THEN Append(all_texts, Strip(segment_text))
    ELSE all_texts

\* lines 330-334
JoinTexts(all_texts) == IF all_texts # <<>> THEN Join(all_texts) ELSE <<>>

\* the comparison of line 367 as a strict one
DeliveryKind_strict(text, cfg) ==
    IF Len(text) < cfg.max_text_length THEN "inline" ELSE "attachment"

\* line 367 of _send_result
DeliveryKind(text, cfg) ==
    IF Len(text) <= cfg.max_text_length THEN "inline" ELSE "attachment"

\* line 371: the file name of the attachment
TranscriptFilename(timestamp) == <<"Transcription", timestamp, "txt">>

(***************************************************************************)
(* Messages and replies.                                                   *)
(***************************************************************************)
Reply(kind, detail, i, n) == [kind |-> kind, detail |-> detail, i |-> i, n |-> n]

Say(kind) == Reply(kind, "", 0, 0)

\* the checks before the download with inclusive limits
PreCheck_inclusive(af) ==
    IF ~af.has_audio THEN "no_audio"
    ELSE IF af.file_size # 0 /\ af.file_size >= TelegramMaxBytes
    THEN "declared_too_big"
    ELSE IF af.duration # 0 /\ af.duration >= MaxDeclaredDuration
    THEN "declared_too_long"
    ELSE "accepted"

\* lines 258-279: the checks before the download; the reply of the check
\* that rejects, or "accepted"
PreCheck(af) ==
    IF ~af.has_audio THEN "no_audio"
    ELSE IF af.file_size # 0 /\ af.file_size > TelegramMaxBytes
    THEN "declared_too_big"
    ELSE IF af.duration # 0 /\ af.duration > MaxDeclaredDuration
    THEN "declared_too_long"
    ELSE "accepted"

\* validate_audio_file without the comparison of the size
validate_audio_file_without_size(files, file_path, size, decodes, cfg) ==
    IF ~Exists(files, file_path)
    THEN [is_valid |-> FALSE, message |-> "not_found"]
    ELSE IF ~decodes
    THEN [is_valid |-> FALSE, message |-> "validation_error"]
    ELSE [is_valid |-> TRUE, message |-> "valid"]

\* AudioProcessor.validate_audio_file: (is_valid, message); size is
\* os.path.getsize(file_path), decodes whether AudioSegment.from_file returns
validate_audio_file(files, file_path, size, decodes, cfg) ==
    IF ~Exists(files, file_path)
    THEN [is_valid |-> FALSE, message |-> "not_found"]
    ELSE IF size > cfg.max_file_size_mb * BytesPerMb
    THEN [is_valid |-> FALSE, message |-> "too_large"]
    ELSE IF ~decodes
    THEN [is_valid |-> FALSE, message |-> "validation_error"]
    ELSE [is_valid |-> TRUE, message |-> "valid"]

\* the progress reply sent for a single segment as well
ProgressReply_always(i, n) ==
    IF n >= 1 THEN <<Reply("progress", "", i, n)>> ELSE <<>>

\* lines 314-315: the progress reply before segment i of n
ProgressReply(i, n) ==
    IF n > 1 THEN <<Reply("progress", "", i, n)>> ELSE <<>>

\* the handler of lines 348-359 without a reply
TopLevelExcept_silent(too_big) == <<>>

\* lines 348-359: the reply of the except clause of handle_audio; too_big is
\* whether "File is too big" occurs in the text of the exception
TopLevelExcept(too_big) ==
    <<Say(IF too_big THEN "too_big_to_process" ELSE "internal_error")>>

\* the finally of _send_result without the removal
FinallyRemove_skipped(files, text_path) == files

\* lines 392-394: the finally of _send_result
FinallyRemove(files, text_path) ==
    IF Exists(files, text_path) THEN Remove(files, text_path) ELSE files

\* lines 374-394: the operations of the attachment path, in order, for the
\* outcome of the delivery; the with statement closes the file when the
\* write has returned or raised
SendResultSteps(outcome, created) ==
    CASE ~created -> <<"open_raised", "reply_text">>
      [] outcome = "write_error" ->
            <<"open", "write_raised", "close", "reply_text", "remove">>
      [] outcome = "send_error" ->
            <<"open", "write", "close", "reply_document_raised",
              "reply_text", "remove">>
      [] OTHER -> <<"open", "write", "close", "reply_document", "remove">>

\* audio_file.file_size as declared by Telegram; 0 stands for None
DeclaredSizes == {0, TelegramMaxBytes, TelegramMaxBytes + 1}

\* audio_file.duration as declared by Telegram; 0 stands for None
DeclaredDurations == {0, MaxDeclaredDuration, MaxDeclaredDuration + 1}

\* the size in bytes of the downloaded file
FileSizes(cfg) ==
    {cfg.max_file_size_mb * BytesPerMb, cfg.max_file_size_mb * BytesPerMb + 1}

\* len(audio) of the downloaded file, in ms
ExampleDurations == {10000, 30000, 30001, 65000}

(***************************************************************************)
(* What the environment may do to one request: the inputs of the actions.  *)
(***************************************************************************)
AllInputs ==
    [durations |-> ExampleDurations,
     download  |-> {"ok", "get_file_too_big", "get_file_error", "download_error"},
     decode    |-> BOOLEAN,
     export    |-> BOOLEAN,
     outcomes  |-> {"recognized", "unknown_value", "request_error",
                    "decode_error", "export_error", "read_error"},
     shapes    |-> {"empty", "blank", "padded", "double"},
     delivery  |-> {"ok", "write_error", "send_error"},
     faults    |-> {"no_fault"}]

\* the inputs of the specification of concurrently dispatched requests
FewInputs ==
    [durations |-> {10000, 30001},
     download  |-> {"ok"},
     decode    |-> {TRUE},
     export    |-> {TRUE},
     outcomes  |-> {"recognized", "read_error"},
     shapes    |-> {"padded"},
     delivery  |-> {"ok"},
     faults    |-> {"no_fault"}]

(***************************************************************************)
(* State.                                                                  *)
(***************************************************************************)
VARIABLES
    config,         \* the BotConfig of the running bot
    fs,             \* the paths that exist below gettempdir()
    pc,             \* where each call of handle_audio stands
    user,           \* update.message.from_user.id
    file_id,        \* audio_file.file_id
    temp_dir,       \* local temp_dir
    audio_path,     \* local audio_path (NoPath while not bound)
    duration_ms,    \* len(audio) of the downloaded file
    file_size,      \* os.path.getsize of the downloaded file
    segment_paths,  \* local segment_paths
    windows,        \* <<start_time, end_time>> of every exported segment
    idx,            \* the number of loop iterations finished
    all_texts,      \* local all_texts
    text,           \* local text
    replies,        \* what the user was sent, in order
    calls,          \* the calls of Transcriber.transcribe, in order
    delivery,       \* what _send_result decided
    audio_file,     \* update.message.audio or update.message.voice, as declared
    io_log          \* the exceptions that left a step, the file and transport
                    \* operations of _send_result and the removal that failed
                    \* in the finally clause, in order

vars == <<config, fs, pc, user, file_id, temp_dir, audio_path, duration_ms,
          file_size, segment_paths, windows, idx, all_texts, text, replies,
          calls, delivery, audio_file, io_log>>

\* no update is being handled
NoAudioFile == [has_audio |-> FALSE, file_size |-> 0, duration |-> 0]

\* audio_file once its declared size and duration are no longer read
Declared(af) == [af EXCEPT !.file_size = 0, !.duration = 0]

NoDelivery == [kind |-> "none", filename |-> <<>>]

InitHandlers ==
    /\ pc = [r \in Requests |-> "idle"]
    /\ audio_file = [r \in Requests |-> NoAudioFile]
    /\ user = [r \in Requests |-> 0]
    /\ file_id = [r \in Requests |-> 0]
    /\ temp_dir = [r \in Requests |-> NoPath]
    /\ audio_path = [r \in Requests |-> NoPath]
    /\ duration_ms = [r \in Requests |-> 0]
    /\ file_size = [r \in Requests |-> 0]
    /\ segment_paths = [r \in Requests |-> <<>>]
    /\ windows = [r \in Requests |-> <<>>]
    /\ idx = [r \in Requests |-> 0]
    /\ all_texts = [r \in Requests |-> <<>>]
    /\ text = [r \in Requests |-> <<>>]
    /\ replies = [r \in Requests |-> <<>>]
    /\ calls = [r \in Requests |-> <<>>]
    /\ delivery = [r \in Requests |-> NoDelivery]
    /\ io_log = [r \in Requests |-> <<>>]

\* the bot after construction: no request in flight, nothing in the temp dir
Init ==
    /\ config \in HandlerConfigs
    /\ fs = {}
    /\ InitHandlers

\* the step of request r to position p, with the replies rs sent on the way
Goto(r, p, rs) ==
    /\ pc' = [pc EXCEPT ![r] = p]
    /\ replies' = [replies EXCEPT ![r] = @ \o rs]

(***************************************************************************)
(* handle_audio, lines 251-287: the checks before the download, the temp   *)
(* directory and the acknowledgement.                                      *)
(***************************************************************************)
Receive(r) ==
    /\ pc[r] = "idle"
    /\ \E user_id \in Users, fid \in FileIds, has_audio \in BOOLEAN,
          size \in DeclaredSizes, dur \in DeclaredDurations :
        LET af == IF has_audio
                  THEN [has_audio |-> TRUE, file_size |-> size, duration |-> dur]
                  ELSE NoAudioFile
        IN  /\ user' = [user EXCEPT ![r] = user_id]
            /\ file_id' = [file_id EXCEPT ![r] = IF has_audio THEN fid ELSE 0]
            /\ audio_file' = [audio_file EXCEPT ![r] = af]
            /\ IF PreCheck(af) # "accepted"
               THEN /\ Goto(r, "cleanup", <<Say(PreCheck(af))>>)
                    /\ UNCHANGED <<fs, temp_dir>>
               ELSE /\ temp_dir' = [temp_dir EXCEPT ![r] = TempDir(user_id)]
                    /\ fs' = Makedirs(fs, TempDir(user_id))
                    /\ Goto(r, "download", <<Say("processing")>>)
    /\ UNCHANGED <<config, io_log, audio_path, duration_ms, file_size, segment_paths,
                   windows, idx, all_texts, text, calls, delivery>>

(***************************************************************************)
(* handle_audio, lines 288-291: get_file and download.  An exception goes  *)
(* to the handler of lines 348-359.  The declared size and duration of     *)
(* audio_file are read by lines 264-279 only; from here on the model keeps *)
(* of audio_file that it is present.                                       *)
(***************************************************************************)
Download(r, inp) ==
    /\ pc[r] = "download"
    /\ LET path == AudioPath(temp_dir[r], file_id[r])
       IN  \E outcome \in inp.download, d \in inp.durations,
              size \in FileSizes(config), partial \in BOOLEAN :
            IF outcome \in {"get_file_too_big", "get_file_error"}
            THEN /\ Goto(r, "cleanup",
                         TopLevelExcept(outcome = "get_file_too_big"))
                 /\ io_log' = [io_log EXCEPT ![r] = Append(@, "get_file_raised")]
                 /\ UNCHANGED <<fs, audio_path, duration_ms, file_size>>
            ELSE IF outcome = "download_error" \/ ~CanCreate(fs, path)
            THEN /\ audio_path' = [audio_path EXCEPT ![r] = path]
                 /\ fs' = IF partial /\ CanCreate(fs, path)
                          THEN fs \cup {path} ELSE fs
                 /\ Goto(r, "cleanup", TopLevelExcept(FALSE))
                 /\ io_log' = [io_log EXCEPT ![r] = Append(@, "download_raised")]
                 /\ UNCHANGED <<duration_ms, file_size>>
            ELSE /\ audio_path' = [audio_path EXCEPT ![r] = path]
                 /\ fs' = fs \cup {path}
                 /\ duration_ms' = [duration_ms EXCEPT ![r] = d]
                 /\ file_size' = [file_size EXCEPT ![r] = size]
                 /\ Goto(r, "validate", <<>>)
                 /\ UNCHANGED io_log
    /\ audio_file' = [audio_file EXCEPT ![r] = Declared(@)]
    /\ UNCHANGED <<config, user, file_id, temp_dir, segment_paths, windows,
                   idx, all_texts, text, calls, delivery>>

(***************************************************************************)
(* handle_audio, lines 294-297, with AudioProcessor.validate_audio_file.   *)
(***************************************************************************)
Validate(r, inp) ==
    /\ pc[r] = "validate"
    /\ \E decodes \in inp.decode :
        LET result == validate_audio_file(fs, audio_path[r], file_size[r],
                                          decodes, config)
        IN  IF ~result.is_valid
            THEN Goto(r, "cleanup", <<Reply("invalid", result.message, 0, 0)>>)
            ELSE Goto(r, "split", <<>>)
    /\ UNCHANGED <<config, audio_file, io_log, fs, user, file_id, temp_dir, audio_path, duration_ms,
                   file_size, segment_paths, windows, idx, all_texts, text,
                   calls, delivery>>

(***************************************************************************)
(* handle_audio, lines 299-305, with                                       *)
(* AudioProcessor.split_audio_into_segments.  Any exception of the split   *)
(* becomes a RuntimeError; handle_audio replies, re-raises, and the        *)
(* handler of lines 348-359 replies again.                                 *)
(***************************************************************************)
Split(r, inp) ==
    /\ pc[r] = "split"
    /\ LET segments_dir == SegmentsDir(audio_path[r])
           made == Makedirs(fs, segments_dir)
           n == Max(num_segments(duration_ms[r], config), 0)
           paths == [k \in 1..n |-> SegmentPath(segments_dir, k)]
           Fail(files, exported) ==
               /\ fs' = files
               /\ windows' = [windows EXCEPT
                                ![r] = Windows(exported, duration_ms[r], config)]
               /\ Goto(r, "cleanup",
                       <<Say("split_error")>> \o TopLevelExcept(FALSE))
               /\ io_log' = [io_log EXCEPT ![r] = Append(@, "split_raised")]
               /\ UNCHANGED segment_paths
       IN  \E decodes \in inp.decode, exports \in inp.export :
            IF ~Exists(fs, audio_path[r]) \/ ~decodes
            THEN Fail(fs, 0)
            ELSE IF FitsOneSegment(duration_ms[r], config)
            THEN /\ segment_paths' = [segment_paths EXCEPT ![r] = <<audio_path[r]>>]
                 /\ Goto(r, "transcribe", <<>>)
                 /\ UNCHANGED <<fs, windows, io_log>>
            ELSE IF DivisionByZero(config)
            THEN Fail(made, 0)
            ELSE IF exports
            THEN /\ fs' = made \cup Range(paths)
                 /\ segment_paths' = [segment_paths EXCEPT ![r] = paths]
                 /\ windows' = [windows EXCEPT
                                  ![r] = Windows(n, duration_ms[r], config)]
                 /\ Goto(r, "transcribe", <<>>)
                 /\ UNCHANGED io_log
            ELSE \E k \in 1..n, partial \in BOOLEAN :
                    Fail(made \cup {paths[j] : j \in 1..(k - 1)}
                              \cup (IF partial THEN {paths[k]} ELSE {}),
                         k - 1)
    /\ UNCHANGED <<config, audio_file, user, file_id, temp_dir, audio_path,
                   duration_ms, file_size, idx, all_texts, text, calls, delivery>>

(***************************************************************************)
(* handle_audio, lines 310-327: one iteration of the loop over the         *)
(* segments, with Transcriber.transcribe.                                  *)
(***************************************************************************)
TranscribeSegment(r, inp) ==
    /\ pc[r] = "transcribe"
    /\ idx[r] < Len(segment_paths[r])
    /\ LET i == idx[r] + 1
           n == Len(segment_paths[r])
           file_path == segment_paths[r][i]
           progress == ProgressReply(i, n)
       IN  \E chosen \in inp.outcomes, shape \in inp.shapes, partial \in BOOLEAN :
            LET outcome == IF Exists(fs, file_path) THEN chosen ELSE "decode_error"
                segment_text == RecognizedText(outcome, shape, i)
            IN  /\ fs' = FilesAfterTranscribe(fs, file_path, outcome, partial)
                /\ calls' = [calls EXCEPT ![r] = Append(@,
                       [chunk     |-> i,
                        file_path |-> file_path,
                        outcome   |-> outcome,
                        raised    |-> Raises(outcome),
                        text      |-> IF Raises(outcome) THEN <<>> ELSE segment_text,
                        replies_before |-> Len(replies[r]) + Len(progress)])]
                /\ all_texts' = [all_texts EXCEPT ![r] =
                       IF Raises(outcome) THEN @ ELSE AppendText(@, segment_text)]
                /\ idx' = [idx EXCEPT ![r] = i]
                /\ Goto(r, "transcribe", progress)
    /\ UNCHANGED <<config, audio_file, io_log, user, file_id, temp_dir, audio_path, duration_ms,
                   file_size, segment_paths, windows, text, delivery>>

(***************************************************************************)
(* handle_audio, lines 329-346, with _send_result (lines 365-395).         *)
(***************************************************************************)
SendResult(r, inp) ==
    /\ pc[r] = "transcribe"
    /\ idx[r] = Len(segment_paths[r])
    /\ LET joined == JoinTexts(all_texts[r])
       IN  /\ text' = [text EXCEPT ![r] = joined]
           /\ IF Strip(joined) = <<>>
              THEN /\ Goto(r, "cleanup", <<Say("no_speech")>>)
                   /\ UNCHANGED <<fs, delivery, io_log>>
              ELSE \E outcome \in inp.delivery, timestamp \in Timestamps :
                    IF DeliveryKind(joined, config) = "inline"
                    THEN /\ delivery' = [delivery EXCEPT
                                ![r] = [kind |-> "inline", filename |-> <<>>]]
                         /\ Goto(r, "cleanup",
                                 IF outcome = "send_error"
                                 THEN TopLevelExcept(FALSE)
                                 ELSE <<Say("result")>>)
                         /\ io_log' = [io_log EXCEPT ![r] = Append(@,
                                IF outcome = "send_error"
                                THEN "reply_text_raised" ELSE "reply_text")]
                         /\ UNCHANGED fs
                    ELSE LET filename == TranscriptFilename(timestamp)
                             text_path == PathJoin(temp_dir[r], filename)
                             created == CanCreate(fs, text_path)
                             sent == created /\ outcome = "ok"
                         IN  /\ delivery' = [delivery EXCEPT
                                    ![r] = [kind |-> "attachment",
                                            filename |-> filename]]
                             /\ fs' = FinallyRemove(
                                    IF created THEN fs \cup {text_path} ELSE fs,
                                    text_path)
                             /\ io_log' = [io_log EXCEPT ![r] =
                                    @ \o SendResultSteps(outcome, created)]
                             /\ Goto(r, "cleanup",
                                     <<Say(IF sent THEN "document"
                                           ELSE "file_error")>>)
    /\ UNCHANGED <<config, audio_file, user, file_id, temp_dir, audio_path, duration_ms,
                   file_size, segment_paths, windows, idx, all_texts, calls>>

(***************************************************************************)
(* handle_audio, lines 361-363: the finally clause, with _cleanup_files.   *)
(***************************************************************************)
Cleanup(r, inp) ==
    /\ pc[r] = "cleanup"
    /\ \E fault \in inp.faults :
        /\ fs' = cleanup_files_fault(fs, audio_path[r], segment_paths[r],
                                     temp_dir[r], fault)
        /\ io_log' = [io_log EXCEPT ![r] =
                IF Propagates(fault)
                THEN @ \o <<fault, "cleanup_raised">> ELSE Append(@, fault)]
    /\ pc' = [pc EXCEPT ![r] = "done"]
    /\ UNCHANGED <<config, audio_file, user, file_id, temp_dir, audio_path, duration_ms,
                   file_size, segment_paths, windows, idx, all_texts, text,
                   replies, calls, delivery>>

\* handle_audio has returned: its locals are gone
Return(r) ==
    /\ pc[r] = "done"
    /\ pc' = [pc EXCEPT ![r] = "idle"]
    /\ user' = [user EXCEPT ![r] = 0]
    /\ file_id' = [file_id EXCEPT ![r] = 0]
    /\ temp_dir' = [temp_dir EXCEPT ![r] = NoPath]
    /\ audio_path' = [audio_path EXCEPT ![r] = NoPath]
    /\ duration_ms' = [duration_ms EXCEPT ![r] = 0]
    /\ file_size' = [file_size EXCEPT ![r] = 0]
    /\ segment_paths' = [segment_paths EXCEPT ![r] = <<>>]
    /\ windows' = [windows EXCEPT ![r] = <<>>]
    /\ idx' = [idx EXCEPT ![r] = 0]
    /\ all_texts' = [all_texts EXCEPT ![r] = <<>>]
    /\ text' = [text EXCEPT ![r] = <<>>]
    /\ replies' = [replies EXCEPT ![r] = <<>>]
    /\ calls' = [calls EXCEPT ![r] = <<>>]
    /\ delivery' = [delivery EXCEPT ![r] = NoDelivery]
    /\ audio_file' = [audio_file EXCEPT ![r] = NoAudioFile]
    /\ io_log' = [io_log EXCEPT ![r] = <<>>]
    /\ UNCHANGED <<config, fs>>

(***************************************************************************)
(* The dispatcher of TelegramBot.run: the handler is registered without    *)
(* run_async, so an update is handled when the one before has returned.    *)
(***************************************************************************)
Dispatch(r) ==
    /\ \A q \in Requests : pc[q] = "idle"
    /\ Receive(r)

Next ==
    \E r \in Requests :
        \/ Dispatch(r)
        \/ Download(r, AllInputs)
        \/ Validate(r, AllInputs)
        \/ Split(r, AllInputs)
        \/ TranscribeSegment(r, AllInputs)
        \/ SendResult(r, AllInputs)
        \/ Cleanup(r, AllInputs)
        \/ Return(r)

Spec == Init /\ [][Next]_vars

(***************************************************************************)
(* The windowing specification: a request that has downloaded and          *)
(* validated an audio file of any duration, under any configuration, and   *)
(* the split that follows.                                                 *)
(***************************************************************************)
SegmenterInputs ==
    [durations |-> {},
     download  |-> {},
     decode    |-> {TRUE},
     export    |-> {TRUE},
     outcomes  |-> {},
     shapes    |-> {},
     delivery  |-> {}]

InitSegmenter ==
    /\ config \in SegmenterConfigs
    /\ audio_file = [r \in Requests |->
                        IF r = "r1"
                        THEN [has_audio |-> TRUE, file_size |-> 0, duration |-> 0]
                        ELSE NoAudioFile]
    /\ fs = {TempDir(1), AudioPath(TempDir(1), 1)}
    /\ pc = [r \in Requests |-> IF r = "r1" THEN "split" ELSE "idle"]
    /\ user = [r \in Requests |-> IF r = "r1" THEN 1 ELSE 0]
    /\ file_id = [r \in Requests |-> IF r = "r1" THEN 1 ELSE 0]
    /\ temp_dir = [r \in Requests |-> IF r = "r1" THEN TempDir(1) ELSE NoPath]
    /\ audio_path = [r \in Requests |->
                        IF r = "r1" THEN AudioPath(TempDir(1), 1) ELSE NoPath]
    /\ \E d \in (1..MaxDurationMs) \cup ExampleDurations :
            duration_ms = [r \in Requests |-> IF r = "r1" THEN d ELSE 0]
    /\ file_size = [r \in Requests |-> IF r = "r1" THEN 1 ELSE 0]
    /\ segment_paths = [r \in Requests |-> <<>>]
    /\ windows = [r \in Requests |-> <<>>]
    /\ idx = [r \in Requests |-> 0]
    /\ all_texts = [r \in Requests |-> <<>>]
    /\ text = [r \in Requests |-> <<>>]
    /\ replies = [r \in Requests |->
                        IF r = "r1" THEN <<Say("processing")>> ELSE <<>>]
    /\ calls = [r \in Requests |-> <<>>]
    /\ delivery = [r \in Requests |-> NoDelivery]
    /\ io_log = [r \in Requests |-> <<>>]

NextSegmenter == \E r \in Requests : Split(r, SegmenterInputs)

SpecSegmenter == InitSegmenter /\ [][NextSegmenter]_vars

\* the request whose split has returned more than one segment path
SplitDone(r) == pc[r] = "transcribe" /\ windows[r] # <<>>

\* C6: for every duration d > segment_duration and every overlap with
\* 0 <= overlap < segment_duration, the windows of the split start at 0,
\* advance by segment_duration - overlap, end at d with the last window, lie
\* within [0, d) and leave no gap between consecutive windows; 65000 ms with
\* segment_duration 30 s and overlap 2 s gives [0,30000), [28000,58000),
\* [56000,65000).
C6_WindowsCoverDuration ==
    \A r \in Requests :
        LET d == duration_ms[r]
            s == config.segment_duration * 1000
            o == config.segment_overlap * 1000
            w == windows[r]
            N == Len(w)
        IN  (pc[r] = "transcribe" /\ d > s /\ 0 <= o /\ o < s) =>
                /\ N >= 1
                /\ Len(segment_paths[r]) = N
                /\ w[1][1] = 0
                /\ \A i \in 1..(N - 1) : w[i + 1][1] = w[i][1] + (s - o)
                /\ w[N][2] = d
                /\ \A i \in 1..N : 0 <= w[i][1] /\ w[i][2] <= d
                /\ \A i \in 1..(N - 1) : w[i + 1][1] <= w[i][2]
                /\ \A t \in {0, d - 1} \cup {w[i][2] : i \in 1..(N - 1)} :
                        \E i \in 1..N : w[i][1] <= t /\ t < w[i][2]
                /\ (d = 65000 /\ s = 30000 /\ o = 2000) =>
                        w = << <<0, 30000>>, <<28000, 58000>>, <<56000, 65000>> >>

C6_Witness ==
    \E r \in Requests :
        /\ SplitDone(r)
        /\ duration_ms[r] = 65000
        /\ config.segment_duration = 30
        /\ config.segment_overlap = 2
        /\ Len(windows[r]) = 3

\* C8: for every d > segment_duration and 0 <= overlap < segment_duration
\* the number of windows N is ceil((d - overlap) / (segment_duration -
\* overlap)), the least count that covers [0, d); every window is non-empty,
\* every window but the last is segment_duration long, consecutive windows
\* share exactly overlap milliseconds, and the last window ends strictly
\* after the one before it.
C8_WindowCountAndLengths ==
    \A r \in Requests :
        LET d == duration_ms[r]
            s == config.segment_duration * 1000
            o == config.segment_overlap * 1000
            w == windows[r]
            N == Len(w)
        IN  (pc[r] = "transcribe" /\ d > s /\ 0 <= o /\ o < s) =>
                /\ N * (s - o) >= d - o
                /\ (N - 1) * (s - o) < d - o
                /\ \A i \in 1..N : w[i][1] < w[i][2]
                /\ \A i \in 1..(N - 1) : w[i][2] - w[i][1] = s
                /\ \A i \in 1..(N - 1) :
                        Min(w[i][2], w[i + 1][2]) - Max(w[i][1], w[i + 1][1]) = o
                /\ N >= 2
                /\ w[N][2] > w[N - 1][2]
                /\ w[N - 1][2] < d

C8_Witness ==
    \E r \in Requests :
        /\ SplitDone(r)
        /\ config.segment_overlap > 0
        /\ config.segment_overlap < config.segment_duration
        /\ Len(windows[r]) >= 3
        /\ windows[r][Len(windows[r])][2] - windows[r][Len(windows[r])][1]
                < config.segment_duration * 1000

(***************************************************************************)
(* Properties of handle_audio, under the dispatcher of TelegramBot.run.    *)
(***************************************************************************)
ReplyKinds(r) == {replies[r][k].kind : k \in DOMAIN replies[r]}

\* the loop over the segments has ended and lines 329-346 were executed
LoopFinished(r) ==
    /\ pc[r] \in {"cleanup", "done"}
    /\ segment_paths[r] # <<>>
    /\ idx[r] = Len(segment_paths[r])

\* the caller appended nothing for this call of transcribe
Skipped(call) ==
    call.raised \/ \A k \in DOMAIN call.text : call.text[k] = " "

\* C1: when handle_audio has finished a request that created its scratch
\* directory, whatever the exit path, none of the request's temp files is
\* left: not the downloaded audio, not its WAV copy, no segment, not the
\* segments directory, not the scratch directory.
C1_NoTempFilesLeft ==
    \A r \in Requests :
        (pc[r] = "done" /\ temp_dir[r] # NoPath) =>
            /\ temp_dir[r] \notin fs
            /\ \A q \in fs : SubSeq(q, 1, 1) # temp_dir[r]
            /\ audio_path[r] # NoPath =>
                    /\ audio_path[r] \notin fs
                    /\ [audio_path[r] EXCEPT ![2][3] = "wav"] \notin fs
            /\ \A k \in DOMAIN segment_paths[r] : segment_paths[r][k] \notin fs

\* a request of three segments whose transcribe failed after writing the WAV
C1_Witness ==
    \E r \in Requests :
        /\ pc[r] = "done"
        /\ Len(segment_paths[r]) = 3
        /\ \E k \in DOMAIN calls[r] : calls[r][k].outcome = "read_error"

\* a single-segment request whose transcribe left the WAV copy behind
C1_WitnessSingle ==
    \E r \in Requests :
        /\ pc[r] = "done"
        /\ segment_paths[r] = <<audio_path[r]>>
        /\ \E k \in DOMAIN calls[r] : calls[r][k].outcome = "read_error"

\* C2: in a request of three chunks where chunks 1 and 3 are recognized and
\* only chunk 2 meets sr.RequestError, the final transcript is the text of
\* chunk 1, one blank, the text of chunk 3.
C2_BackendErrorChunkSkipped ==
    \A r \in Requests :
        (/\ LoopFinished(r)
         /\ Len(calls[r]) = 3
         /\ calls[r][1].outcome = "recognized" /\ ~Skipped(calls[r][1])
         /\ calls[r][2].outcome = "request_error"
         /\ calls[r][3].outcome = "recognized" /\ ~Skipped(calls[r][3]))
        => text[r] = <<"w1", " ", "w3">> \/ text[r] = <<"w1", "w1", " ", "w3">>
           \/ text[r] = <<"w1", " ", "w3", "w3">>
           \/ text[r] = <<"w1", "w1", " ", "w3", "w3">>

\* C3: when the backend raises sr.UnknownValueError, transcribe returns the
\* empty string.
C3_UnknownValueReturnsEmpty ==
    \A r \in Requests : \A k \in DOMAIN calls[r] :
        calls[r][k].outcome = "unknown_value" =>
            ~calls[r][k].raised /\ calls[r][k].text = <<>>

\* C4: if every chunk of a request was skipped (transcribe raised, or
\* returned a text that is empty or all blanks), the final transcript is
\* empty, the user gets the "could not recognize speech" reply, and neither a
\* result, nor a document, nor an error reply.
C4_AllSkippedNoSpeech ==
    \A r \in Requests :
        (LoopFinished(r) /\ \A k \in DOMAIN calls[r] : Skipped(calls[r][k])) =>
            /\ text[r] = <<>>
            /\ "no_speech" \in ReplyKinds(r)
            /\ ReplyKinds(r) \subseteq {"processing", "progress", "no_speech"}
            /\ delivery[r].kind = "none"

\* three chunks: one raised, one returned a blank, one returned nothing
C4_Witness ==
    \E r \in Requests :
        /\ LoopFinished(r)
        /\ Len(calls[r]) = 3
        /\ \E k \in 1..3 : calls[r][k].raised
        /\ \E k \in 1..3 : calls[r][k].text = <<" ">>
        /\ \E k \in 1..3 : ~calls[r][k].raised /\ calls[r][k].text = <<>>
        /\ "no_speech" \in ReplyKinds(r)

\* the transcript the calls of transcribe should give: the trimmed non-empty
\* returned texts, in call order, one blank between two of them
RECURSIVE ExpectedTranscript(_)
ExpectedTranscript(cs) ==
    IF cs = <<>> THEN <<>>
    ELSE LET rest == ExpectedTranscript(Tail(cs))
             solid == {k \in DOMAIN Head(cs).text : Head(cs).text[k] # " "}
             lo == CHOOSE a \in solid : \A k \in solid : a <= k
             hi == CHOOSE b \in solid : \A k \in solid : b >= k
             t == [k \in 1..(hi - lo + 1) |-> Head(cs).text[lo + k - 1]]
         IN  IF Head(cs).raised \/ solid = {} THEN rest
             ELSE IF rest = <<>> THEN t
             ELSE t \o <<" ">> \o rest

\* C5: transcribe is called for chunk 1, 2, ... in this order, once each,
\* on that chunk's path, and the final transcript is the single-blank join
\* of the trimmed non-empty texts in chunk order: the words of chunk i come
\* before the words of chunk j for i < j.
C5_SequentialInOrder ==
    \A r \in Requests :
        /\ Len(calls[r]) = idx[r]
        /\ idx[r] <= Len(segment_paths[r])
        /\ \A k \in DOMAIN calls[r] :
                /\ calls[r][k].chunk = k
                /\ calls[r][k].file_path = segment_paths[r][k]
        /\ LoopFinished(r) =>
                /\ text[r] = ExpectedTranscript(calls[r])
                /\ \A i, j \in DOMAIN calls[r] : \A p, q \in DOMAIN text[r] :
                        (i < j /\ text[r][p] = "w" \o ToString(i)
                               /\ text[r][q] = "w" \o ToString(j)) => p < q

\* chunk 1 and chunk 3 contribute, chunk 2 is skipped
C5_Witness ==
    \E r \in Requests :
        /\ LoopFinished(r)
        /\ Len(calls[r]) = 3
        /\ calls[r][1].text = <<" ", "w1", " ">>
        /\ calls[r][2].raised
        /\ calls[r][3].text = <<"w3", "w3">>
        /\ text[r] = <<"w1", " ", "w3", "w3">>

\* C7: for every duration d <= segment_duration, d = segment_duration
\* included, the split returns the source file as its only chunk, creates
\* neither a segments directory nor a chunk file, and the request calls
\* transcribe exactly once.
C7_ShortAudioOneChunk ==
    \A r \in Requests :
        (duration_ms[r] > 0 /\ pc[r] \in {"transcribe", "cleanup", "done"}
         /\ duration_ms[r] <= config.segment_duration * 1000) =>
            /\ segment_paths[r] \in {<<>>, <<audio_path[r]>>}
            /\ pc[r] = "transcribe" => segment_paths[r] = <<audio_path[r]>>
            /\ windows[r] = <<>>
            /\ \A q \in fs : Len(q) >= 2 => q[2] # <<"segments">>
            /\ \A k \in DOMAIN calls[r] : calls[r][k].file_path = audio_path[r]
            /\ Len(calls[r]) <= 1
            /\ LoopFinished(r) => Len(calls[r]) = 1

C7_Witness ==
    \E r \in Requests :
        /\ pc[r] = "done"
        /\ duration_ms[r] = config.segment_duration * 1000
        /\ segment_paths[r] = <<audio_path[r]>>
        /\ Len(calls[r]) = 1

(***************************************************************************)
(* The delivery specification: a request whose loop over the segments has  *)
(* ended with a transcript of any length, and the delivery that follows.   *)
(***************************************************************************)
DeliveryConfigs ==
    {BotConfig(DefaultSegmentDuration, DefaultSegmentOverlap,
               DefaultMaxFileSizeMb, InlineLimit),
     BotConfig(DefaultSegmentDuration, DefaultSegmentOverlap,
               DefaultMaxFileSizeMb, DefaultMaxTextLength)}

ProbeLengths == (0..MaxProbeLen) \cup {4095, 4096, 4097, 5000}

InitDelivery ==
    /\ config \in DeliveryConfigs
    /\ audio_file = [r \in Requests |->
                        IF r = "r1"
                        THEN [has_audio |-> TRUE, file_size |-> 0, duration |-> 0]
                        ELSE NoAudioFile]
    /\ fs = {TempDir(1), AudioPath(TempDir(1), 1)}
    /\ pc = [r \in Requests |-> IF r = "r1" THEN "transcribe" ELSE "idle"]
    /\ user = [r \in Requests |-> IF r = "r1" THEN 1 ELSE 0]
    /\ file_id = [r \in Requests |-> IF r = "r1" THEN 1 ELSE 0]
    /\ temp_dir = [r \in Requests |-> IF r = "r1" THEN TempDir(1) ELSE NoPath]
    /\ audio_path = [r \in Requests |->
                        IF r = "r1" THEN AudioPath(TempDir(1), 1) ELSE NoPath]
    /\ duration_ms = [r \in Requests |-> IF r = "r1" THEN 10000 ELSE 0]
    /\ file_size = [r \in Requests |-> IF r = "r1" THEN 1 ELSE 0]
    /\ segment_paths = [r \in Requests |->
                        IF r = "r1" THEN <<AudioPath(TempDir(1), 1)>> ELSE <<>>]
    /\ windows = [r \in Requests |-> <<>>]
    /\ idx = [r \in Requests |-> IF r = "r1" THEN 1 ELSE 0]
    /\ text = [r \in Requests |-> <<>>]
    /\ replies = [r \in Requests |->
                        IF r = "r1" THEN <<Say("processing")>> ELSE <<>>]
    /\ delivery = [r \in Requests |-> NoDelivery]
    /\ io_log = [r \in Requests |-> <<>>]
    /\ \E length \in ProbeLengths :
        LET recognized == [k \in 1..length |-> Word(1)]
        IN  /\ calls = [r \in Requests |->
                    IF r = "r1"
                    THEN <<[chunk |-> 1, file_path |-> AudioPath(TempDir(1), 1),
                            outcome |-> "recognized", raised |-> FALSE,
                            text |-> recognized, replies_before |-> 1]>>
                    ELSE <<>>]
            /\ all_texts = [r \in Requests |->
                    IF r = "r1" THEN AppendText(<<>>, recognized) ELSE <<>>]

NextDelivery ==
    \E r \in Requests :
        \/ SendResult(r, AllInputs)
        \/ Cleanup(r, AllInputs)
        \/ Return(r)

SpecDelivery == InitDelivery /\ [][NextDelivery]_vars

\* _send_result has been called for the request and has returned or raised
SendResultCalled(r) == pc[r] \in {"cleanup", "done"} /\ delivery[r].kind # "none"

\* C9 as stated: the transcript goes out as an inline message when len(text)
\* <= max_text_length and as a .txt attachment named after the timestamp
\* when it is longer, and it is never delivered both ways or neither way.
C9_DeliveredExactlyOneWay ==
    \A r \in Requests :
        SendResultCalled(r) =>
            /\ Len(text[r]) <= config.max_text_length =>
                    "result" \in ReplyKinds(r) /\ "document" \notin ReplyKinds(r)
            /\ Len(text[r]) > config.max_text_length =>
                    "document" \in ReplyKinds(r) /\ "result" \notin ReplyKinds(r)

\* C9 as amended: the way chosen depends on len(text) <= max_text_length
\* alone; a transcript of exactly max_text_length goes the inline way, a
\* longer one (5000 against 4096) the attachment way, with a file name made
\* of the timestamp and the extension txt; it is never delivered both ways,
\* and it is delivered neither way only when the chosen way failed, and then
\* an error text is sent instead.
C9_DeliveryDecision ==
    \A r \in Requests :
        /\ (LoopFinished(r) /\ text[r] # <<>>) => delivery[r].kind # "none"
        /\ pc[r] \notin {"cleanup", "done"} => delivery[r].kind = "none"
        /\ SendResultCalled(r) =>
            /\ Len(text[r]) <= config.max_text_length =>
                    /\ delivery[r] = [kind |-> "inline", filename |-> <<>>]
                    /\ "document" \notin ReplyKinds(r)
                    /\ "result" \in ReplyKinds(r) \/ "internal_error" \in ReplyKinds(r)
            /\ Len(text[r]) > config.max_text_length =>
                    /\ delivery[r].kind = "attachment"
                    /\ \E t \in Timestamps :
                            delivery[r].filename = <<"Transcription", t, "txt">>
                    /\ "result" \notin ReplyKinds(r)
                    /\ "document" \in ReplyKinds(r) \/ "file_error" \in ReplyKinds(r)
            /\ ~("result" \in ReplyKinds(r) /\ "document" \in ReplyKinds(r))
            /\ ~("result" \in ReplyKinds(r) /\ "internal_error" \in ReplyKinds(r))
            /\ ~("document" \in ReplyKinds(r) /\ "file_error" \in ReplyKinds(r))
            /\ (Len(text[r]) = 5000 /\ config.max_text_length = 4096) =>
                    delivery[r].kind = "attachment"

\* the transcript of 5000 against the limit of 4096, sent as a document
C9_Witness ==
    \E r \in Requests :
        /\ SendResultCalled(r)
        /\ Len(text[r]) = 5000
        /\ config.max_text_length = 4096
        /\ "document" \in ReplyKinds(r)

\* a transcript of exactly max_text_length, sent inline
C9_WitnessExactLimit ==
    \E r \in Requests :
        /\ SendResultCalled(r)
        /\ Len(text[r]) = config.max_text_length
        /\ "result" \in ReplyKinds(r)

\* a transcript one longer than max_text_length, sent as a document
C9_WitnessOneMore ==
    \E r \in Requests :
        /\ SendResultCalled(r)
        /\ Len(text[r]) = config.max_text_length + 1
        /\ "document" \in ReplyKinds(r)

(***************************************************************************)
(* The specification of concurrently dispatched requests: handle_audio is  *)
(* entered for an update while the call for another update is still        *)
(* running (a dispatcher that runs its handlers on worker threads).  The   *)
(* steps of the calls interleave at the statements of handle_audio.        *)
(***************************************************************************)
NextConcurrent ==
    \E r \in Requests :
        \/ Receive(r)
        \/ Download(r, FewInputs)
        \/ Validate(r, FewInputs)
        \/ Split(r, FewInputs)
        \/ TranscribeSegment(r, FewInputs)
        \/ SendResult(r, FewInputs)
        \/ Cleanup(r, FewInputs)
        \/ Return(r)

SpecConcurrent == Init /\ [][NextConcurrent]_vars

ValidationRejected(r) == "invalid" \in ReplyKinds(r)

\* validate_audio_file has returned for the request
Validated(r) ==
    \/ pc[r] \in {"split", "transcribe"}
    \/ pc[r] \in {"cleanup", "done"} /\ file_size[r] # 0

\* C11: when validate_audio_file rejects the downloaded file (missing, larger
\* than max_file_size_mb, or not decodable) the user is sent the reason as
\* the only reply after the acknowledgement, and the request ends with no
\* split, no call of transcribe and no result; a file larger than
\* max_file_size_mb is always rejected.
C11_ValidationRejectionStops ==
    \A r \in Requests :
        /\ Validated(r) /\ file_size[r] > config.max_file_size_mb * BytesPerMb
                => ValidationRejected(r)
        /\ ValidationRejected(r) =>
                /\ pc[r] \in {"cleanup", "done"}
                /\ Len(replies[r]) = 2
                /\ replies[r][1] = Say("processing")
                /\ replies[r][2].kind = "invalid"
                /\ replies[r][2].detail \in
                        {"not_found", "too_large", "validation_error"}
                /\ segment_paths[r] = <<>>
                /\ windows[r] = <<>>
                /\ calls[r] = <<>>
                /\ delivery[r] = NoDelivery
                /\ "split_raised" \notin Range(io_log[r])

\* a request rejected for its size has finished
C11_Witness ==
    \E r \in Requests :
        /\ pc[r] = "done"
        /\ file_size[r] > config.max_file_size_mb * BytesPerMb
        /\ replies[r] = <<Say("processing"), Reply("invalid", "too_large", 0, 0)>>

\* C12: whenever split_audio_into_segments computes a window count (the
\* audio is longer than one segment), the overlap of the running
\* configuration is smaller than the segment duration, so that the divisor
\* segment_duration_ms - overlap_ms is positive.
C12_OverlapBelowSegmentDuration ==
    \A r \in Requests :
        pc[r] = "split" /\ ~FitsOneSegment(duration_ms[r], config) =>
            /\ config.segment_overlap < config.segment_duration
            /\ segment_duration_ms(config) - overlap_ms(config) > 0

(***************************************************************************)
(* Exceptions inside a request.                                            *)
(***************************************************************************)
\* the exceptions that leave the try of lines 257-346
TopLevelExceptions ==
    {"get_file_raised", "download_raised", "split_raised", "reply_text_raised"}

\* the except clause of lines 348-359 was entered
ReachedTopLevel(r) == Range(io_log[r]) \cap TopLevelExceptions # {}

\* the exceptions caught inside _send_result (lines 388-390)
DeliveryExceptions == {"open_raised", "write_raised", "reply_document_raised"}

\* some step of the request raised an exception
RaisedSomewhere(r) ==
    \/ ReachedTopLevel(r)
    \/ \E k \in DOMAIN calls[r] : calls[r][k].raised
    \/ Range(io_log[r]) \cap DeliveryExceptions # {}

GenericFailure == {"internal_error", "too_big_to_process"}

LastReply(r) == replies[r][Len(replies[r])]

\* the finally clause of lines 361-363 has run and removed the scratch
\* directory of the request
CleanupRan(r) ==
    /\ io_log[r] # <<>>
    /\ io_log[r][Len(io_log[r])] \in CleanupFaults
    /\ temp_dir[r] # NoPath => \A q \in fs : ~IsPrefix(temp_dir[r], q)

\* C13 as stated: whatever step of a request raises an exception, the
\* request ends with the generic failure text or the file-too-big text as
\* its last reply, and with the cleanup done.
C13_EveryExceptionReported ==
    \A r \in Requests :
        pc[r] = "done" /\ RaisedSomewhere(r) =>
            /\ LastReply(r).kind \in GenericFailure
            /\ CleanupRan(r)

\* C13: no failure inside a request stops the bot.  An exception of the
\* download, of the segmentation or of the inline send reaches the except
\* clause of handle_audio and the user is sent the generic failure text or
\* the file-too-big text last; an exception of transcribe is caught in the
\* loop, which goes on to the end; an exception of the attachment path is
\* caught in _send_result and answered with the file error text; in every
\* case the cleanup runs, handle_audio returns and the next update can be
\* dispatched.
C13_FailuresDoNotStopBot ==
    /\ \A r \in Requests :
        /\ pc[r] \in {"cleanup", "done"} /\ ReachedTopLevel(r) =>
                LastReply(r).kind \in GenericFailure
        /\ pc[r] \in {"cleanup", "done"} /\ ~ReachedTopLevel(r) =>
                ReplyKinds(r) \cap GenericFailure = {}
        /\ pc[r] \in {"cleanup", "done"}
           /\ (\E k \in DOMAIN calls[r] : calls[r][k].raised)
           /\ ~ReachedTopLevel(r) =>
                Len(calls[r]) = Len(segment_paths[r])
        /\ pc[r] \in {"cleanup", "done"}
           /\ Range(io_log[r]) \cap DeliveryExceptions # {} =>
                LastReply(r) = Say("file_error")
        /\ pc[r] = "done" => CleanupRan(r) /\ ENABLED Return(r)
    /\ (\A q \in Requests : pc[q] = "idle") =>
            \A r \in Requests : ENABLED Dispatch(r)

\* a request whose download raised has finished
C13_Witness ==
    \E r \in Requests :
        /\ pc[r] = "done"
        /\ "download_raised" \in Range(io_log[r])
        /\ LastReply(r) = Say("internal_error")

(***************************************************************************)
(* The attachment path of _send_result.                                    *)
(***************************************************************************)
\* _send_result has finished on its attachment path
AttachmentAttempted(r) ==
    pc[r] \in {"cleanup", "done"} /\ delivery[r].kind = "attachment"

\* the positions of the operation in the log of the request
At(r, op) == {k \in DOMAIN io_log[r] : io_log[r][k] = op}

\* C14: on the attachment path the transcript file is written and closed
\* before reply_document is called, the file does not exist when
\* _send_result has finished (after a successful send, a failed write or a
\* failed send), and neither the write nor the send is attempted twice.
C14_AttachmentWrittenThenRemoved ==
    \A r \in Requests :
        AttachmentAttempted(r) =>
            LET text_path == PathJoin(temp_dir[r], delivery[r].filename)
                sends == At(r, "reply_document") \cup At(r, "reply_document_raised")
                writes == At(r, "write") \cup At(r, "write_raised")
            IN  /\ ~Exists(fs, text_path)
                /\ \A k \in sends :
                        \E w \in At(r, "write"), c \in At(r, "close") :
                            w < c /\ c < k
                /\ Cardinality(sends) <= 1
                /\ Cardinality(writes) <= 1
                /\ Cardinality(At(r, "open") \cup At(r, "open_raised")) = 1
                /\ LastReply(r) = Say(IF At(r, "reply_document") # {}
                                      THEN "document" ELSE "file_error")

\* _send_result has just finished after a send of the attachment that failed
C14_Witness ==
    \E r \in Requests :
        /\ pc[r] = "cleanup"
        /\ delivery[r].kind = "attachment"
        /\ At(r, "reply_document_raised") # {}

\* _send_result has just finished after a write that failed
C14_WitnessWrite ==
    \E r \in Requests :
        /\ pc[r] = "cleanup"
        /\ delivery[r].kind = "attachment"
        /\ At(r, "write_raised") # {}

(***************************************************************************)
(* A segmentation that fails.                                              *)
(***************************************************************************)
SegmentationFailed(r) == "split_raised" \in Range(io_log[r])

\* C15: when split_audio_into_segments fails (the source does not decode,
\* or the export of a chunk fails after earlier chunks were written), the
\* request is aborted: transcribe is never called, nothing is delivered, and
\* when handle_audio has finished neither the segments directory nor any
\* chunk written into it exists.
C15_SegmentationFailureLeavesNothing ==
    \A r \in Requests :
        SegmentationFailed(r) =>
            /\ pc[r] \in {"cleanup", "done"}
            /\ "split_error" \in ReplyKinds(r)
            /\ segment_paths[r] = <<>>
            /\ calls[r] = <<>>
            /\ delivery[r] = NoDelivery
            /\ pc[r] = "done" =>
                    \A q \in fs : ~IsPrefix(SegmentsDir(audio_path[r]), q)

\* the export of a later chunk failed after the first chunks were written,
\* and handle_audio has finished
C15_Witness ==
    \E r \in Requests :
        /\ pc[r] = "done"
        /\ SegmentationFailed(r)
        /\ Len(windows[r]) >= 1

(***************************************************************************)
(* The specification of removals that fail: the first update a freshly     *)
(* started bot handles, up to the end of handle_audio, where any one       *)
(* removal of the cleanup may raise an OSError.                            *)
(***************************************************************************)
FaultInputs == [AllInputs EXCEPT !.faults = CleanupFaults]

NextFaults ==
    \E r \in Requests :
        \/ Dispatch(r)
        \/ Download(r, FaultInputs)
        \/ Validate(r, FaultInputs)
        \/ Split(r, FaultInputs)
        \/ TranscribeSegment(r, FaultInputs)
        \/ SendResult(r, FaultInputs)
        \/ Cleanup(r, FaultInputs)

SpecFaults == Init /\ [][NextFaults]_vars

\* the removal that failed in the cleanup of the finished request
FaultOf(r) == io_log[r][Len(io_log[r])]

\* C16: the cleanup is best-effort.  No exception leaves _cleanup_files,
\* whichever removal fails.  When no removal of a segment fails, every
\* segment of the request is gone after the cleanup, the ones transcribe
\* had removed before included, and so is the segments directory of a
\* request of several segments, also when the rmtree that follows fails.
\* The step of the cleanup changes neither the replies nor what was
\* delivered, and the request finishes.
C16_CleanupBestEffort ==
    /\ [](\A r \in Requests :
            pc[r] = "done" =>
                /\ "cleanup_raised" \notin Range(io_log[r])
                /\ FaultOf(r) \in CleanupFaults
                /\ FaultOf(r) \in {"no_fault", "rmtree_fails", "rmdir_fails"} =>
                        Range(segment_paths[r]) \cap fs = {}
                /\ FaultOf(r) \in {"no_fault", "rmtree_fails"}
                   /\ Len(segment_paths[r]) > 1 =>
                        ~Exists(fs, Dirname(segment_paths[r][1])))
    /\ [][\A r \in Requests :
            pc[r] = "cleanup" /\ pc'[r] # "cleanup" =>
                /\ pc'[r] = "done"
                /\ replies'[r] = replies[r]
                /\ delivery'[r] = delivery[r]
                /\ text'[r] = text[r]]_vars

\* a request of two segments has finished after a cleanup whose rmtree
\* failed: transcribe had removed the first segment, the second one was
\* still there
C16_Witness ==
    \E r \in Requests :
        /\ pc[r] = "done"
        /\ FaultOf(r) = "rmtree_fails"
        /\ Len(calls[r]) = 2
        /\ ~calls[r][1].raised
        /\ calls[r][2].outcome = "read_error"
        /\ Exists(fs, temp_dir[r])

(***************************************************************************)
(* The replies of a request.                                               *)
(***************************************************************************)
IsProgress(m) == m.kind = "progress"

\* the progress replies of the request, in the order they were sent
ProgressReplies(r) == SelectSeq(replies[r], IsProgress)

\* C17: a request of one chunk is sent no progress reply; a request of
\* N > 1 chunks is sent one progress reply 'i/N' per chunk, in increasing i,
\* each as the last reply before the call of transcribe for chunk i and
\* after the call for chunk i-1 has returned or raised.
C17_ProgressPerChunk ==
    \A r \in Requests :
        LET n == Len(segment_paths[r])
        IN  /\ n <= 1 => ProgressReplies(r) = <<>>
            /\ n > 1 =>
                /\ ProgressReplies(r) =
                        [i \in 1..idx[r] |-> Reply("progress", "", i, n)]
                /\ \A k \in DOMAIN calls[r] :
                    /\ calls[r][k].chunk = k
                    /\ replies[r][calls[r][k].replies_before] =
                            Reply("progress", "", k, n)
                    /\ k > 1 => calls[r][k].replies_before =
                                    calls[r][k - 1].replies_before + 1

\* a request of several chunks has finished; the call for its first chunk
\* raised and the progress reply of the second chunk was sent all the same
C17_Witness ==
    \E r \in Requests :
        /\ pc[r] = "done"
        /\ Len(segment_paths[r]) >= 2
        /\ calls[r][1].raised
        /\ Len(ProgressReplies(r)) = Len(segment_paths[r])

\* a request of one chunk has finished with its result
C17_WitnessSingle ==
    \E r \in Requests :
        /\ pc[r] = "done"
        /\ Len(segment_paths[r]) = 1
        /\ Len(calls[r]) = 1
        /\ LastReply(r) = Say("result")

\* the replies that end a request
TerminalKinds ==
    {"no_audio", "declared_too_big", "declared_too_long", "too_big_to_process",
     "internal_error", "invalid", "split_error", "no_speech", "result",
     "document", "file_error"}

TerminalReplies(r) ==
    {k \in DOMAIN replies[r] : replies[r][k].kind \in TerminalKinds}

\* C18: a request with an audio attachment that has finished was sent
\* exactly one terminal reply: one result, or the reply that no speech was
\* recognized, or one error text.
C18_ExactlyOneTerminalReply ==
    \A r \in Requests :
        pc[r] = "done" /\ audio_file[r].has_audio =>
            Cardinality(TerminalReplies(r)) = 1

(***************************************************************************)
(* The checks before the download.                                         *)
(***************************************************************************)
RejectionKinds == {"no_audio", "declared_too_big", "declared_too_long"}

\* one of the replies of lines 260, 265 and 274 was sent
Rejected(r) == ReplyKinds(r) \cap RejectionKinds # {}

\* C19: a request without audio, or with a declared size above 50 MB, or
\* with a declared duration above 7200 s, is rejected with one reply and
\* nothing else: no scratch directory, no download, no split, no call of
\* transcribe, no delivery, and no step of the request changes the
\* filesystem.  A request with audio whose declared size is at most 50 MB
\* and whose declared duration is at most 7200 s is not rejected.
C19_RejectionLeavesNoTrace ==
    /\ [](\A r \in Requests :
            /\ Rejected(r) =>
                /\ pc[r] \in {"cleanup", "done"}
                /\ Len(replies[r]) = 1
                /\ \/ ~audio_file[r].has_audio
                   \/ audio_file[r].file_size > TelegramMaxBytes
                   \/ audio_file[r].duration > MaxDeclaredDuration
                /\ temp_dir[r] = NoPath
                /\ audio_path[r] = NoPath
                /\ segment_paths[r] = <<>>
                /\ windows[r] = <<>>
                /\ calls[r] = <<>>
                /\ delivery[r] = NoDelivery
                /\ Range(io_log[r]) \subseteq {"no_fault"}
            /\ pc[r] = "download" =>
                /\ ~Rejected(r)
                /\ audio_file[r].has_audio
                /\ audio_file[r].file_size <= TelegramMaxBytes
                /\ audio_file[r].duration <= MaxDeclaredDuration
            /\ pc[r] \in {"cleanup", "done"} /\ temp_dir[r] = NoPath =>
                Rejected(r))
    /\ [][\A r \in Requests :
            pc'[r] # pc[r] /\ pc'[r] # "idle" /\ temp_dir'[r] = NoPath =>
                fs' = fs]_vars

\* a request with a declared duration above the limit was rejected and has
\* finished
C19_Witness ==
    \E r \in Requests :
        /\ pc[r] = "done"
        /\ replies[r] = <<Say("declared_too_long")>>
        /\ audio_file[r].duration = MaxDeclaredDuration + 1

\* a request that declares exactly 50 MB and exactly 7200 s was accepted
C19_WitnessAtLimits ==
    \E r \in Requests :
        /\ pc[r] = "download"
        /\ audio_file[r].file_size = TelegramMaxBytes
        /\ audio_file[r].duration = MaxDeclaredDuration

====
